---- MODULE Spec2Model ----
(***************************************************************************)
(* Vehicle telemetry ingestion and fuel-anomaly detection of QuantaLearn   *)
(* LMS: the HTTP push endpoint (transport.py), the MQTT subscriber         *)
(* (mqtt_client.py), the fuel classifier and the efficiency aggregator    *)
(* (utils.py), the rule-based alert checks, alert acknowledgment, the      *)
(* realtime publisher, and the scheduled jobs (scheduler.py): the offline  *)
(* monitor, the retention reaper and the daily fuel report.                *)
(*                                                                         *)
(* Units: time in minutes, fuel in 1/UPL litres (L(x) is x litres).        *)
(***************************************************************************)
EXTENDS Integers, Sequences, FiniteSets, TLC

\* ------------------------------------------------------------------ bounds
\* fuel units per litre (2: half litres, so that 0.5 L is representable)
UPL == 2
\* accepted samples kept in the model's telemetry table
MaxSamples == 2
\* the clock is not read past this time (minutes)
MaxTime == 30

L(x) == x * UPL

\* Python's None, as stored in a nullable column or returned by dict.get
NONE == -1000000

\* the missing X-API-Key header
NoKey == ""

\* ----------------------------------------------------------- the registry
\* Bus rows (models.py): two buses of two schools, tanks of 100 L and 50 L
Buses ==
  { [id |-> 1, school_id |-> 1, api_key |-> "key1", fuel_tank_capacity |-> L(100), is_active |-> TRUE],
    [id |-> 2, school_id |-> 2, api_key |-> "key2", fuel_tank_capacity |-> L(50), is_active |-> TRUE] }

BusIds == {b.id : b \in Buses}
\* ids a caller may address: the registered ones and an unknown one
AddressedIds == BusIds \cup {3}
SchoolIds == {b.school_id : b \in Buses}
Keys == {b.api_key : b \in Buses} \cup {NoKey}
BusById(id) == CHOOSE b \in Buses : b.id = id

\* users of the web layer: [id, school_id]
Users == { [id |-> 1, school_id |-> 1], [id |-> 2, school_id |-> 2] }

\* ------------------------------------------------------------- the inputs
BasePayload ==
  [latitude |-> 12, longitude |-> 77, speed_kmh |-> 0, fuel_level_liters |-> L(50),
   fuel_flow_lph |-> 0, odometer_km |-> 0, engine_on |-> FALSE]

\* stationary with the engine off, speeding
Motions == { <<0, FALSE>>, <<90, TRUE>> }
FuelLevels == { NONE, 0, L(15), L(50), L(65) }

GoodPayloads ==
  { [BasePayload EXCEPT !.speed_kmh = m[1], !.engine_on = m[2], !.fuel_level_liters = f] :
      m \in Motions, f \in FuelLevels }

BadPayloads ==
  { [BasePayload EXCEPT !.latitude = 91],
    [BasePayload EXCEPT !.longitude = -181],
    [BasePayload EXCEPT !.speed_kmh = 201],
    [BasePayload EXCEPT !.fuel_level_liters = L(111)] }

Payloads == GoodPayloads \cup BadPayloads

\* minutes between two readings of the clock
Delays == {10}

\* ------------------------------------------------------------------ state
VARIABLES
  telemetry,    \* the telemetry table: sequence of rows, in insertion order
  fuel_events,  \* the fuel_events table
  alerts,       \* the alerts table; an alert's id is its index
  published,    \* the 'telemetry_update' messages emitted, with their room
  now,          \* the last reading of datetime.utcnow()
  nextId,       \* the telemetry id sequence
  sessions,     \* per worker thread: the database session it has open, if any
  against,      \* per sample id: the id of the sample it was classified
                \* against, 0 for none (history, written at the commit)
  probe,        \* the classifier called on its own: inputs and output; the
                \* answer of a fuel-analytics query
  last_seen,    \* per bus: the column buses.last_seen
  last          \* the handler that made the last step, and what it answered

vars == <<telemetry, fuel_events, alerts, published, now, nextId, sessions, against, probe, last_seen, last>>

\* what a handler that answers without touching the database leaves alone
db == <<telemetry, fuel_events, alerts, published, now, nextId, against, last_seen>>

\* the delays that keep the clock within the horizon end
Within(delays, end) == {dt \in delays : now + dt <= end}
\* the delays of the ingestion specifications
Ticks == Within(Delays, MaxTime)
\* the delays left to an ingestion while the telemetry table holds fewer
\* than cap samples: none once it is full
Room(delays, cap) == IF Len(telemetry) < cap THEN delays ELSE {}
IngestTicks == Room(Ticks, MaxSamples)

Max(a, b) == IF a >= b THEN a ELSE b
Abs(x) == IF x < 0 THEN -x ELSE x

\* --------------------------------------------------- program constants
RefuelLitres == 10
TheftLitres == 5
ExcessiveLitres == 2
ExcessiveRate == 15
MinutesPerHour == 60
SpeedLimit == 80
MaxSpeed == 200
LowFuelPct == 20
CriticalFuelPct == 10
IdleWindow == 10
IdleCount == 5

\* Python truthiness of a nullable number: None and 0.0 are both falsy
Falsy(x) == x = NONE \/ x = 0

\* str.title() on the event types the classifier returns
TitleCase(type) ==
  CASE type = "REFUEL" -> "Refuel"
    [] type = "THEFT" -> "Theft"
    [] type = "EXCESSIVE_CONSUMPTION" -> "Excessive_Consumption"
    [] type = "IDLE" -> "Idle"

\* ---------------------------------------------------------- the classifier
\* utils.detect_fuel_anomaly: the sequence of 0 or 1 anomalies it returns
\* (None is the empty sequence)
detect_fuel_anomaly(prev, curr) ==
  IF Falsy(prev.fuel_level_liters) \/ Falsy(curr.fuel_level_liters) THEN << >>
  ELSE
    LET fuel_diff == curr.fuel_level_liters - prev.fuel_level_liters
        \* minutes; the code's hours are time_diff / MinutesPerHour
        time_diff == curr.timestamp - prev.timestamp
    IN  IF fuel_diff > L(RefuelLitres)
          THEN << [type |-> "REFUEL", amount |-> fuel_diff, severity |-> "INFO"] >>
        ELSE IF fuel_diff < -L(TheftLitres) /\ curr.speed_kmh = 0 /\ ~curr.engine_on
          THEN << [type |-> "THEFT", amount |-> Abs(fuel_diff), severity |-> "CRITICAL"] >>
        ELSE IF /\ fuel_diff < -L(ExcessiveLitres)
                /\ time_diff > 0
                /\ Abs(fuel_diff) * MinutesPerHour > L(ExcessiveRate) * time_diff
          THEN << [type |-> "EXCESSIVE_CONSUMPTION", amount |-> Abs(fuel_diff), severity |-> "WARNING"] >>
        ELSE IF /\ curr.speed_kmh = 0
                /\ curr.engine_on
                /\ 2 * fuel_diff < -L(1)
                /\ 2 * time_diff > MinutesPerHour
          THEN << [type |-> "IDLE", amount |-> Abs(fuel_diff), severity |-> "WARNING"] >>
        ELSE << >>

\* ------------------------------------------------------------ table rows
AlertRow(b, level, title, t) ==
  [bus_id |-> b, level |-> level, title |-> title, timestamp |-> t,
   is_acknowledged |-> FALSE, acknowledged_by |-> NONE, acknowledged_at |-> NONE]

FuelEventRow(b, a, t) ==
  [bus_id |-> b, event_type |-> a.type, amount_liters |-> a.amount,
   severity |-> a.severity, timestamp |-> t]

\* a handler that escalates CRITICAL events only
CriticalOnly(a) == a.severity = "CRITICAL"

\* the severities for which the handlers add an Alert next to the FuelEvent
AlertingSeverity(a) == a.severity \in {"WARNING", "CRITICAL"}

\* the FuelEvent and Alert rows both handlers add for the anomalies found
AnomalyEvents(b, anomalies, t) ==
  [i \in 1..Len(anomalies) |-> FuelEventRow(b, anomalies[i], t)]

AnomalyAlerts(b, anomalies, t) ==
  LET alerting == SelectSeq(anomalies, AlertingSeverity)
  IN  [i \in 1..Len(alerting) |->
         AlertRow(b, alerting[i].severity, "Fuel " \o TitleCase(alerting[i].type) \o " Detected", t)]

\* ------------------------------------------------------- reading the table
BusRows(rows, b) == SelectSeq(rows, LAMBDA r : r.bus_id = b)

\* Telemetry.query.filter_by(bus_id).order_by(timestamp.desc()).offset(1).first()
\* on the rows the session sees (its own flushed row included): every row
\* that some descending order puts second; rows of equal timestamp may come
\* in either order. The empty set when there are fewer than two rows.
SecondNewest(view) ==
  { view[j] : j \in { i \in 1..Len(view) :
      LET newer == Cardinality({k \in 1..Len(view) : view[k].timestamp > view[i].timestamp})
          equal == Cardinality({k \in 1..Len(view) : view[k].timestamp = view[i].timestamp})
      IN  newer + 1 <= 2 /\ 2 <= newer + equal } }

\* --------------------------------------------------------- the alert rules
\* transport.check_alerts: the alerts it adds to the session. The fuel
\* percentage is computed from fuel_level_liters without a None check: for a
\* sample without fuel level it raises TypeError before any alert is added,
\* and receive_telemetry logs the exception and goes on.
check_alerts(tel, bus, view, t) ==
  IF tel.fuel_level_liters = NONE THEN << >>
  ELSE
    LET speed == IF tel.speed_kmh > SpeedLimit
                   THEN << AlertRow(bus.id, "WARNING", "Speed Limit Exceeded", t) >>
                   ELSE << >>
        \* fuel_percentage = fuel / tank * 100, compared without dividing
        pct100 == tel.fuel_level_liters * 100
        low == IF pct100 < LowFuelPct * bus.fuel_tank_capacity
                 THEN << AlertRow(bus.id,
                           IF pct100 < CriticalFuelPct * bus.fuel_tank_capacity
                             THEN "CRITICAL" ELSE "WARNING",
                           "Low Fuel Level", t) >>
                 ELSE << >>
        recent == SelectSeq(view, LAMBDA r : r.timestamp >= t - IdleWindow)
        n == Len(recent)
        idle == IF /\ tel.speed_kmh = 0 /\ tel.engine_on
                   /\ n > IdleCount
                   /\ \A i \in (n - IdleCount + 1)..n :
                        recent[i].speed_kmh = 0 /\ recent[i].engine_on
                  THEN << AlertRow(bus.id, "INFO", "Extended Idling Detected", t) >>
                  ELSE << >>
    IN  speed \o low \o idle

\* ------------------------------------------------------------ the handlers
\* receive_telemetry, its answer: the API key and bus lookup, then the
\* validation of the payload against the bus's tank capacity
HttpStatus(b, key, d) ==
  IF key = NoKey THEN 401
  ELSE IF ~\E bus \in Buses : bus.id = b /\ bus.api_key = key THEN 403
  ELSE IF d.latitude # NONE /\ (d.latitude < -90 \/ d.latitude > 90) THEN 400
  ELSE IF d.longitude # NONE /\ (d.longitude < -180 \/ d.longitude > 180) THEN 400
  ELSE IF d.speed_kmh < 0 \/ d.speed_kmh > MaxSpeed THEN 400
  ELSE IF /\ d.fuel_level_liters # NONE
          /\ \/ d.fuel_level_liters < 0
             \* fuel_level > bus.fuel_tank_capacity * 1.1
             \/ 10 * d.fuel_level_liters > 11 * BusById(b).fuel_tank_capacity
       THEN 400
  ELSE 200

\* the Telemetry row receive_telemetry builds: flow and odometer clamped
HttpRow(id, b, d, t) ==
  [id |-> id, bus_id |-> b, timestamp |-> t,
   latitude |-> d.latitude, longitude |-> d.longitude,
   speed_kmh |-> d.speed_kmh, fuel_level_liters |-> d.fuel_level_liters,
   fuel_flow_lph |-> Max(0, d.fuel_flow_lph), odometer_km |-> Max(0, d.odometer_km),
   engine_on |-> d.engine_on]

\* the Telemetry row on_message builds: the payload as it came
MqttRow(id, b, d, t) ==
  [id |-> id, bus_id |-> b, timestamp |-> t,
   latitude |-> d.latitude, longitude |-> d.longitude,
   speed_kmh |-> d.speed_kmh, fuel_level_liters |-> d.fuel_level_liters,
   fuel_flow_lph |-> d.fuel_flow_lph, odometer_km |-> d.odometer_km,
   engine_on |-> d.engine_on]

\* on_message: the bus exists and the topic's school is the bus's school
MqttKnown(school, b) == \E bus \in Buses : bus.id = b /\ bus.school_id = school

\* the previous sample the handlers pass to the classifier: << >> when the
\* query finds none, else <<row>>, one of the rows the query may return
PreviousTelemetry(view) ==
  IF SecondNewest(view) = {} THEN { << >> } ELSE { <<p>> : p \in SecondNewest(view) }

Anomalies(prev, tel) ==
  IF prev = << >> THEN << >> ELSE detect_fuel_anomaly(prev[1], tel)

\* an update sent to every connected client (room 0: no room given)
BroadcastMessage(tel, school) ==
  [bus_id |-> tel.bus_id, room |-> 0, latitude |-> tel.latitude,
   longitude |-> tel.longitude, speed_kmh |-> tel.speed_kmh,
   fuel_level_liters |-> tel.fuel_level_liters, engine_on |-> tel.engine_on,
   timestamp |-> tel.timestamp]

\* socketio.emit('telemetry_update', {...}, to='school_<id>')
UpdateMessage(tel, school) ==
  [bus_id |-> tel.bus_id, room |-> school, latitude |-> tel.latitude,
   longitude |-> tel.longitude, speed_kmh |-> tel.speed_kmh,
   fuel_level_liters |-> tel.fuel_level_liters, engine_on |-> tel.engine_on,
   timestamp |-> tel.timestamp]

\* what one receive_telemetry session holds at db.session.commit(): the
\* sample, then the classifier's event and alert, then check_alerts' alerts
HttpSession(rows, b, d, t, id, prev) ==
  LET tel == HttpRow(id, b, d, t)
      anomalies == Anomalies(prev, tel)
  IN  [tel |-> tel,
       prev |-> IF prev = << >> THEN 0 ELSE prev[1].id,
       events |-> AnomalyEvents(b, anomalies, t),
       alerts |-> AnomalyAlerts(b, anomalies, t)
                    \o check_alerts(tel, BusById(b), BusRows(rows, b) \o <<tel>>, t),
       message |-> UpdateMessage(tel, BusById(b).school_id)]

\* what one on_message session holds at db.session.commit()
MqttSession(rows, school, b, d, t, id, prev) ==
  LET tel == MqttRow(id, b, d, t)
      anomalies == Anomalies(prev, tel)
  IN  [tel |-> tel,
       prev |-> IF prev = << >> THEN 0 ELSE prev[1].id,
       events |-> AnomalyEvents(b, anomalies, t),
       alerts |-> AnomalyAlerts(b, anomalies, t),
       message |-> UpdateMessage(tel, school)]

\* the sessions a handler may come to hold at db.session.commit(), the
\* clock read at the flush being now + dt
HttpSessions(b, d, dt) ==
  LET t == now + dt
      view == BusRows(telemetry, b) \o << HttpRow(nextId, b, d, t) >>
  IN  { HttpSession(telemetry, b, d, t, nextId, prev) : prev \in PreviousTelemetry(view) }

MqttSessions(school, b, d, dt) ==
  LET t == now + dt
      view == BusRows(telemetry, b) \o << MqttRow(nextId, b, d, t) >>
  IN  { MqttSession(telemetry, school, b, d, t, nextId, prev) : prev \in PreviousTelemetry(view) }

\* db.session.commit() and the emit that follows it; no handler assigns
\* bus.last_seen
Commit(s) ==
  /\ UNCHANGED last_seen
  /\ telemetry' = Append(telemetry, s.tel)
  /\ fuel_events' = fuel_events \o s.events
  /\ alerts' = alerts \o s.alerts
  /\ published' = Append(published, s.message)
  /\ against' = Append(against, <<s.tel.id, s.prev>>)

\* the effect of receive_telemetry(bus_id) on the database, the realtime
\* channel and the clock, from the request to the response, no other handler
\* running meanwhile; delays are the readings the clock may give at the flush
HttpIngest(b, key, d, delays) ==
  IF HttpStatus(b, key, d) # 200
    THEN UNCHANGED db
    ELSE \E dt \in delays :
           /\ \E s \in HttpSessions(b, d, dt) : Commit(s)
           /\ now' = now + dt
           /\ nextId' = nextId + 1

\* POST /api/transport/telemetry/<bus_id> with the X-API-Key header key
receive_telemetry(b, key, d, delays) ==
  /\ HttpIngest(b, key, d, delays)
  /\ last' = [op |-> "http", status |-> HttpStatus(b, key, d)]
  /\ UNCHANGED <<sessions, probe>>

\* the effect of on_message for a message on
\* quantafons/<school>/buses/<b>/telemetry
MqttIngest(school, b, d, delays) ==
  IF ~MqttKnown(school, b)
    THEN UNCHANGED db
    ELSE \E dt \in delays :
           /\ \E s \in MqttSessions(school, b, d, dt) : Commit(s)
           /\ now' = now + dt
           /\ nextId' = nextId + 1

\* on_message(client, userdata, msg): the topic gives school and bus id, the
\* payload the sample; the message carries no credential of the vehicle
on_message(school, b, d, delays) ==
  /\ MqttIngest(school, b, d, delays)
  /\ last' = [op |-> "mqtt", status |-> IF MqttKnown(school, b) THEN 200 ELSE 404]
  /\ UNCHANGED <<sessions, probe>>

\* the query of acknowledge_alert: the alert of that id, joined to a bus of
\* the caller's school
AlertOfSchool(alert_id, school) ==
  /\ alert_id \in 1..Len(alerts)
  /\ BusById(alerts[alert_id].bus_id).school_id = school

\* POST /api/transport/alerts/<alert_id>/acknowledge by the logged-in user u
acknowledge_alert(u, alert_id, delays) ==
  /\ IF AlertOfSchool(alert_id, u.school_id)
       THEN \E dt \in delays :
              /\ alerts' = [alerts EXCEPT ![alert_id] =
                              [@ EXCEPT !.is_acknowledged = TRUE,
                                        !.acknowledged_by = u.id,
                                        !.acknowledged_at = now + dt]]
              /\ now' = now + dt
              /\ last' = [op |-> "acknowledge", status |-> 200]
              /\ UNCHANGED <<telemetry, fuel_events, published, nextId, against, last_seen>>
       ELSE /\ last' = [op |-> "acknowledge", status |-> 404]
            /\ UNCHANGED db
  /\ UNCHANGED <<sessions, probe>>

\* ------------------------------------------------------ the specification
Workers == {1, 2}
Idle == [state |-> "idle"]
NoProbe == [done |-> FALSE]

InitDb ==
  /\ telemetry = << >>
  /\ fuel_events = << >>
  /\ alerts = << >>
  /\ published = << >>
  /\ against = << >>
  /\ now = 0
  /\ nextId = 1
  /\ sessions = [w \in Workers |-> Idle]
  /\ last_seen = [b \in BusIds |-> NONE]
  /\ last = [op |-> "start", status |-> 200]

Init == InitDb /\ probe = NoProbe

Next ==
  \/ \E b \in AddressedIds, key \in Keys, d \in Payloads :
       receive_telemetry(b, key, d, IngestTicks)
  \/ \E school \in SchoolIds, b \in AddressedIds, d \in Payloads :
       on_message(school, b, d, IngestTicks)
  \/ \E u \in Users, alert_id \in 1..(Len(alerts) + 1) :
       acknowledge_alert(u, alert_id, Ticks)

Spec == Init /\ [][Next]_vars

\* ------------------------------------------- handlers running concurrently
\* Flask serves each request on its own thread and the MQTT loop has its own
\* (socketio async_mode 'threading', client.loop_start()); each thread has
\* its own database session and no lock is taken per bus. A session reads
\* the committed rows and its own flushed row (PostgreSQL, READ COMMITTED).
ConcPayloads ==
  { BasePayload,
    [BasePayload EXCEPT !.fuel_level_liters = L(15)],
    [BasePayload EXCEPT !.speed_kmh = 90, !.engine_on = TRUE] }

OpenSessions == {w \in Workers : sessions[w].state = "open"}

\* a handler up to its db.session.commit(): the sample is flushed and the
\* previous sample read, the classifier and the rules have run
Begin(w, s, dt) ==
  /\ sessions[w] = Idle
  /\ now + dt <= MaxTime
  /\ Len(telemetry) + Cardinality(OpenSessions) < MaxSamples
  /\ sessions' = [sessions EXCEPT ![w] = [state |-> "open", session |-> s]]
  /\ now' = now + dt
  /\ nextId' = nextId + 1
  /\ UNCHANGED <<telemetry, fuel_events, alerts, published, against, probe, last_seen>>

\* receive_telemetry on thread w, lines 117-190
begin_receive_telemetry(w, b, d, dt) ==
  /\ HttpStatus(b, BusById(b).api_key, d) = 200
  /\ \E s \in HttpSessions(b, d, dt) : Begin(w, s, dt)
  /\ last' = [op |-> "http", status |-> 0]

\* on_message on thread w, lines 26-87
begin_on_message(w, b, d, dt) ==
  /\ \E s \in MqttSessions(BusById(b).school_id, b, d, dt) : Begin(w, s, dt)
  /\ last' = [op |-> "mqtt", status |-> 0]

\* the commit of thread w's session, the emit and the answer
commit_session(w) ==
  /\ sessions[w].state = "open"
  /\ Commit(sessions[w].session)
  /\ sessions' = [sessions EXCEPT ![w] = Idle]
  /\ last' = [op |-> "commit", status |-> 200]
  /\ UNCHANGED <<now, nextId, probe>>

NextConc ==
  \/ \E w \in Workers, b \in BusIds, d \in ConcPayloads : begin_receive_telemetry(w, b, d, 10)
  \/ \E w \in Workers, b \in BusIds, d \in ConcPayloads : begin_on_message(w, b, d, 10)
  \/ \E w \in Workers : commit_session(w)

SpecConc == Init /\ [][NextConc]_vars

\* ------------------------------------------------ the classifier on its own
\* fuel levels around the classifier's thresholds: a step of 1 is 1/UPL litre
ProbeFuel ==
  { NONE, 0, L(15), L(40), L(44), L(45), L(48), L(50) - 2, L(50) - 1, L(50),
    L(60), L(60) + 1, L(65) }
ProbeMinutes == {0, 10, 30, 31, 61}
ProbeMotions == { <<0, FALSE>>, <<0, TRUE>>, <<40, TRUE>> }

ProbeInputs ==
  { [done |-> FALSE,
     prev |-> [fuel_level_liters |-> pf, timestamp |-> 0],
     curr |-> [fuel_level_liters |-> cf, timestamp |-> dt, speed_kmh |-> m[1], engine_on |-> m[2]]] :
      pf \in ProbeFuel, cf \in ProbeFuel, dt \in ProbeMinutes, m \in ProbeMotions }

InitClassifier == InitDb /\ probe \in ProbeInputs

\* one call of detect_fuel_anomaly(prev_telemetry, curr_telemetry, bus)
Classify ==
  /\ ~probe.done
  /\ probe' = [done |-> TRUE, prev |-> probe.prev, curr |-> probe.curr,
               out |-> detect_fuel_anomaly(probe.prev, probe.curr)]
  /\ last' = [op |-> "classify", status |-> 200]
  /\ UNCHANGED <<telemetry, fuel_events, alerts, published, now, nextId, sessions, against, last_seen>>

NextClassifier == Classify

SpecClassifier == InitClassifier /\ [][NextClassifier]_vars

\* ================================================================ claims
\* what the claims read off the tables
Unacknowledged == {i \in 1..Len(alerts) : ~alerts[i].is_acknowledged}
TankOf(b) == BusById(b).fuel_tank_capacity

\* the range the design gives a fuel level: 0 <= fuel <= 1.1 x tank capacity
FuelInRange(fuel, b) == 0 <= fuel /\ 10 * fuel <= 11 * TankOf(b)

\* the validation rules of the design for a sample of bus b
ValidSample(d, b) ==
  /\ d.latitude = NONE \/ (-90 <= d.latitude /\ d.latitude <= 90)
  /\ d.longitude = NONE \/ (-180 <= d.longitude /\ d.longitude <= 180)
  /\ 0 <= d.speed_kmh /\ d.speed_kmh <= 200
  /\ d.fuel_level_liters = NONE \/ FuelInRange(d.fuel_level_liters, b)

\* the caller holds the credential issued to bus b
Authentic(b, key) == \E bus \in Buses : bus.id = b /\ bus.api_key = key

\* the step stores nothing and publishes nothing
StoreUnchanged == UNCHANGED <<telemetry, fuel_events, alerts, published>>

\* the FuelEvents and the classifier's Alerts made for the sample of bus b
\* stamped t
EventsOf(b, t) ==
  {i \in 1..Len(fuel_events) : fuel_events[i].bus_id = b /\ fuel_events[i].timestamp = t}
FuelTitles ==
  { "Fuel Refuel Detected", "Fuel Theft Detected",
    "Fuel Excessive_Consumption Detected", "Fuel Idle Detected" }
ClassifierAlertsOf(b, t) ==
  {i \in 1..Len(alerts) :
     alerts[i].bus_id = b /\ alerts[i].timestamp = t /\ alerts[i].title \in FuelTitles}

\* C1: at most one unacknowledged alert per (vehicle id, title), in every
\* state reached by ingestions and acknowledgments.
C1_OneOpenAlertPerTitle ==
  \A i, j \in Unacknowledged :
    (alerts[i].bus_id = alerts[j].bus_id /\ alerts[i].title = alerts[j].title) => i = j

\* C2: of two samples adjacent in a vehicle's persisted (timestamp) order the
\* later was classified against the earlier, and no two samples of a vehicle
\* were classified against the same previous sample.
C2_ClassifiedInOrder ==
  \A i, j \in 1..Len(telemetry) :
    (i # j /\ telemetry[i].bus_id = telemetry[j].bus_id) =>
      LET AgainstOf(id) == (CHOOSE k \in 1..Len(against) : against[k][1] = id)
          earlier == telemetry[i]
          later == telemetry[j]
          adjacent ==
            /\ earlier.timestamp < later.timestamp
            /\ ~\E k \in 1..Len(telemetry) :
                 /\ telemetry[k].bus_id = later.bus_id
                 /\ earlier.timestamp < telemetry[k].timestamp
                 /\ telemetry[k].timestamp < later.timestamp
      IN  /\ adjacent => against[AgainstOf(later.id)][2] = earlier.id
          /\ against[AgainstOf(earlier.id)][2] # against[AgainstOf(later.id)][2]

\* C3: every persisted sample that has a fuel level has it within
\* [0, 1.1 x tank capacity of its bus], whichever transport delivered it.
C3_PersistedFuelInRange ==
  \A i \in 1..Len(telemetry) :
    telemetry[i].fuel_level_liters # NONE =>
      FuelInRange(telemetry[i].fuel_level_liters, telemetry[i].bus_id)

\* C4: an ingestion call whose sample fails validation is answered with a
\* rejection and stores and publishes nothing.
C4_InvalidSampleRejected ==
  [][ \A b \in BusIds, key \in Keys, d \in Payloads :
        ~ValidSample(d, b) =>
          /\ receive_telemetry(b, key, d, IngestTicks) => (last'.status # 200 /\ StoreUnchanged)
          /\ \A school \in SchoolIds :
               on_message(school, b, d, IngestTicks) => (last'.status # 200 /\ StoreUnchanged)
    ]_vars

\* C5: an ingestion call for an unknown vehicle, or whose caller holds no
\* credential or not that vehicle's (key is what the caller holds: the HTTP
\* header, the MQTT publisher's credential), is rejected and stores and
\* publishes nothing, over HTTP and over MQTT.
C5_UnauthenticRejected ==
  [][ \A b \in AddressedIds, key \in Keys, d \in Payloads :
        ~Authentic(b, key) =>
          /\ receive_telemetry(b, key, d, IngestTicks) => (last'.status # 200 /\ StoreUnchanged)
          /\ \A school \in SchoolIds :
               on_message(school, b, d, IngestTicks) => (last'.status # 200 /\ StoreUnchanged)
    ]_vars

\* C6: the same sample for the same vehicle has the same outcome over HTTP
\* and over MQTT: a step that is the outcome of the one (its decision, the
\* rows it stores, the message it publishes) is an outcome of the other.
C6_TransportsEquivalent ==
  [][ \A b \in BusIds, d \in Payloads :
        LET key == BusById(b).api_key
            school == BusById(b).school_id
        IN  /\ receive_telemetry(b, key, d, IngestTicks) =>
                 /\ (HttpStatus(b, key, d) = 200) <=> MqttKnown(school, b)
                 /\ MqttIngest(school, b, d, IngestTicks)
            /\ on_message(school, b, d, IngestTicks) =>
                 /\ MqttKnown(school, b) <=> (HttpStatus(b, key, d) = 200)
                 /\ HttpIngest(b, key, d, IngestTicks)
    ]_vars

\* the rules of the classifier as the design states them, for the probe
ProbeDiff == probe.curr.fuel_level_liters - probe.prev.fuel_level_liters
ProbeHasFuel == probe.prev.fuel_level_liters # NONE /\ probe.curr.fuel_level_liters # NONE
ProbeStationaryOff == probe.curr.speed_kmh = 0 /\ ~probe.curr.engine_on
RuleHolds(rule) ==
  LET minutes == probe.curr.timestamp - probe.prev.timestamp
  IN  CASE rule = "REFUEL" -> ProbeDiff > L(10)
        [] rule = "THEFT" -> ProbeDiff < -L(5) /\ ProbeStationaryOff
        [] rule = "EXCESSIVE_CONSUMPTION" ->
             /\ ProbeDiff < -L(2)
             /\ minutes > 0
             /\ -ProbeDiff * 60 > L(15) * minutes
        [] rule = "IDLE" ->
             /\ probe.curr.speed_kmh = 0 /\ probe.curr.engine_on
             /\ 2 * ProbeDiff < -L(1)
             /\ 2 * minutes >= 60
RuleOrder == << "REFUEL", "THEFT", "EXCESSIVE_CONSUMPTION", "IDLE" >>
RulesHolding == {k \in 1..4 : RuleHolds(RuleOrder[k])}
EmittedTypes == {probe.out[i].type : i \in 1..Len(probe.out)}

\* C7: the classifier emits at most one event; when two or more rules hold
\* the event is that of the earliest of REFUEL, THEFT, EXCESSIVE_CONSUMPTION,
\* IDLE; when none holds there is no event.
C7_FirstMatchWins ==
  (probe.done /\ ProbeHasFuel) =>
    /\ Len(probe.out) <= 1
    /\ Cardinality(RulesHolding) >= 2 =>
         EmittedTypes = { RuleOrder[CHOOSE k \in RulesHolding : \A m \in RulesHolding : k <= m] }
    /\ RulesHolding = {} => probe.out = << >>

\* C8: the REFUEL and THEFT thresholds are strict: a rise of exactly 10 L is
\* no REFUEL and a rise of more than 10 L is; a drop of exactly 5 L while
\* stationary with the engine off is no THEFT and a drop of more than 5 L is.
C8_StrictThresholds ==
  (probe.done /\ ProbeHasFuel) =>
    /\ ProbeDiff = L(10) => "REFUEL" \notin EmittedTypes
    /\ ProbeDiff > L(10) => EmittedTypes = {"REFUEL"}
    /\ (ProbeDiff = -L(5) /\ ProbeStationaryOff) => "THEFT" \notin EmittedTypes
    /\ (ProbeDiff < -L(5) /\ ProbeStationaryOff) => EmittedTypes = {"THEFT"}

\* C9: for two consecutively ingested samples of a vehicle with fuel levels in
\* the valid range, a drop of more than 5 L with the current sample stationary
\* and the engine off persists exactly one FuelEvent for the current sample, a
\* THEFT of severity CRITICAL whose amount is the drop, and an Alert titled
\* 'Fuel Theft Detected', whatever the time between the two samples.
C9_TheftDetected ==
  \A b \in BusIds :
    LET rows == BusRows(telemetry, b)
    IN  \A k \in 1..(Len(rows) - 1) :
          LET prev == rows[k]
              curr == rows[k + 1]
              drop == prev.fuel_level_liters - curr.fuel_level_liters
          IN  ( /\ prev.fuel_level_liters # NONE /\ FuelInRange(prev.fuel_level_liters, b)
                /\ curr.fuel_level_liters # NONE /\ FuelInRange(curr.fuel_level_liters, b)
                /\ drop > L(5)
                /\ curr.speed_kmh = 0 /\ ~curr.engine_on ) =>
                /\ Cardinality(EventsOf(b, curr.timestamp)) = 1
                /\ \A i \in EventsOf(b, curr.timestamp) :
                     /\ fuel_events[i].event_type = "THEFT"
                     /\ fuel_events[i].severity = "CRITICAL"
                     /\ fuel_events[i].amount_liters = drop
                /\ \E i \in ClassifierAlertsOf(b, curr.timestamp) :
                     alerts[i].title = "Fuel Theft Detected"

\* the title the classifier's alert gets for each event type that alerts
ExpectedTitle(type) ==
  CASE type = "THEFT" -> "Fuel Theft Detected"
    [] type = "EXCESSIVE_CONSUMPTION" -> "Fuel Excessive_Consumption Detected"
    [] type = "IDLE" -> "Fuel Idle Detected"
    [] OTHER -> "none"

\* C10: a sample gets an Alert from the classifier exactly when its FuelEvent
\* has severity WARNING or CRITICAL, titled 'Fuel <Kind> Detected' and of the
\* event's severity; an INFO event (REFUEL) is persisted without an Alert.
C10_AlertIffWarningOrCritical ==
  \A r \in 1..Len(telemetry) :
    LET b == telemetry[r].bus_id
        t == telemetry[r].timestamp
        escalated == {i \in EventsOf(b, t) : fuel_events[i].severity \in {"WARNING", "CRITICAL"}}
    IN  /\ Cardinality(ClassifierAlertsOf(b, t)) = Cardinality(escalated)
        /\ \A i \in escalated : \E a \in ClassifierAlertsOf(b, t) :
             /\ alerts[a].title = ExpectedTitle(fuel_events[i].event_type)
             /\ alerts[a].level = fuel_events[i].severity
        /\ \A i \in EventsOf(b, t) :
             fuel_events[i].event_type = "REFUEL" =>
               (fuel_events[i].severity = "INFO" /\ ClassifierAlertsOf(b, t) = {})

\* C10 witness: a WARNING or CRITICAL event stands with its alert after an
\* ingestion
C10_Witness ==
  /\ last.op \in {"http", "mqtt"}
  /\ last.status = 200
  /\ \E i \in 1..Len(fuel_events) :
       /\ fuel_events[i].severity \in {"WARNING", "CRITICAL"}
       /\ \E a \in ClassifierAlertsOf(fuel_events[i].bus_id, fuel_events[i].timestamp) :
            alerts[a].level = fuel_events[i].severity

\* the conditions of the rule engine as the design states them, read off a
\* sample d of bus b
RuleTitles == { "Speed Limit Exceeded", "Low Fuel Level" }
Triggers(d, b, title) ==
  CASE title = "Speed Limit Exceeded" -> d.speed_kmh > 80
    [] title = "Low Fuel Level" ->
         d.fuel_level_liters # NONE /\ d.fuel_level_liters * 100 < 20 * TankOf(b)

\* the step is an accepted ingestion of sample d for bus b, by its own
\* credential over HTTP or on its own school's topic over MQTT
AcceptedIngestion(b, d) ==
  \/ /\ HttpStatus(b, BusById(b).api_key, d) = 200
     /\ receive_telemetry(b, BusById(b).api_key, d, IngestTicks)
  \/ on_message(BusById(b).school_id, b, d, IngestTicks)

\* C11: when every alert of a (vehicle, title) has been acknowledged, the
\* next accepted sample that triggers the condition again adds a new
\* unacknowledged alert, so that exactly one is open for that (vehicle, title).
C11_RetriggerAfterAck ==
  [][ \A b \in BusIds, d \in Payloads, title \in RuleTitles :
        LET mine(tbl) == {i \in 1..Len(tbl) : tbl[i].bus_id = b /\ tbl[i].title = title}
        IN  ( /\ mine(alerts) # {}
              /\ \A i \in mine(alerts) : alerts[i].is_acknowledged
              /\ Triggers(d, b, title)
              /\ AcceptedIngestion(b, d) ) =>
              Cardinality({i \in mine(alerts') : ~alerts'[i].is_acknowledged}) = 1
    ]_vars

\* ================================================== the efficiency aggregator
\* calendar units in minutes, and the windows of the two callers
DayMinutes == 1440
AnalyticsDays == 30

\* n / d cut to an integer
Truncate2(n, d) == n \div d

\* n / d rounded to the nearest integer, ties to even, for n >= 0 and d > 0:
\* Python's round(x, 2) on a value held in hundredths
Round2(n, d) ==
  LET q == n \div d
      r == n % d
  IN  IF 2 * r < d THEN q
      ELSE IF 2 * r > d THEN q + 1
      ELSE IF q % 2 = 0 THEN q ELSE q + 1

\* utils.calculate_fuel_efficiency, one adjacent pair: the distance variable,
\* set only when both odometer readings are truthy
PairDistance(prev_data, curr_data) ==
  IF ~Falsy(prev_data.odometer_km) /\ ~Falsy(curr_data.odometer_km)
    THEN curr_data.odometer_km - prev_data.odometer_km
    ELSE 0

\* the fuel the pair adds to total_fuel_consumed (fuel units), 0 when it
\* adds none: both fuel levels truthy, fuel_diff > 0 and distance > 0
PairFuel(prev_data, curr_data) ==
  IF /\ ~Falsy(prev_data.fuel_level_liters) /\ ~Falsy(curr_data.fuel_level_liters)
     /\ prev_data.fuel_level_liters - curr_data.fuel_level_liters > 0
     /\ PairDistance(prev_data, curr_data) > 0
    THEN prev_data.fuel_level_liters - curr_data.fuel_level_liters
    ELSE 0

\* total_distance after the loop over pairs 1..n-1: every positive distance
RECURSIVE TotalDistance(_, _)
TotalDistance(data, n) ==
  IF n < 2 THEN 0
  ELSE TotalDistance(data, n - 1)
         + (IF PairDistance(data[n - 1], data[n]) > 0 THEN PairDistance(data[n - 1], data[n]) ELSE 0)

\* total_fuel_consumed after the loop (fuel units)
RECURSIVE TotalFuelConsumed(_, _)
TotalFuelConsumed(data, n) ==
  IF n < 2 THEN 0 ELSE TotalFuelConsumed(data, n - 1) + PairFuel(data[n - 1], data[n])

\* efficiency_points: one entry per pair that consumed fuel, in hundredths
RECURSIVE EfficiencyPoints(_, _)
EfficiencyPoints(data, n) ==
  IF n < 2 THEN << >>
  ELSE LET distance == PairDistance(data[n - 1], data[n])
           fuel_diff == PairFuel(data[n - 1], data[n])
       IN  EfficiencyPoints(data, n - 1) \o
             (IF fuel_diff > 0
                THEN << [timestamp |-> data[n].timestamp,
                         kmpl |-> Round2(100 * distance * UPL, fuel_diff),
                         l_per_100km |-> Round2(10000 * fuel_diff, UPL * distance),
                         distance_km |-> 100 * distance,
                         fuel_consumed_l |-> Round2(100 * fuel_diff, UPL)] >>
                ELSE << >>)

\* utils.calculate_fuel_efficiency(telemetry_data): << >> for the empty dict,
\* else the one result, every number in hundredths (round(.., 2))
calculate_fuel_efficiency(telemetry_data) ==
  IF Len(telemetry_data) < 2 THEN << >>
  ELSE
    LET total_distance == TotalDistance(telemetry_data, Len(telemetry_data))
        total_fuel_consumed == TotalFuelConsumed(telemetry_data, Len(telemetry_data))
    IN  << [overall_kmpl |->
              IF total_fuel_consumed > 0
                THEN Round2(100 * total_distance * UPL, total_fuel_consumed) ELSE 0,
            overall_l_per_100km |->
              IF total_distance > 0
                THEN Round2(10000 * total_fuel_consumed, UPL * total_distance) ELSE 0,
            total_distance_km |-> 100 * total_distance,
            total_fuel_consumed_l |-> Round2(100 * total_fuel_consumed, UPL),
            efficiency_timeline |-> EfficiencyPoints(telemetry_data, Len(telemetry_data))] >>

\* rows ordered by timestamp ascending (order_by(Telemetry.timestamp)); the
\* tables of this section hold distinct timestamps
RECURSIVE ByTimestamp(_)
ByTimestamp(rows) ==
  IF rows = << >> THEN << >>
  ELSE LET m == CHOOSE i \in 1..Len(rows) : \A j \in 1..Len(rows) : rows[i].timestamp <= rows[j].timestamp
       IN  << rows[m] >> \o ByTimestamp([k \in 1..(Len(rows) - 1) |-> IF k < m THEN rows[k] ELSE rows[k + 1]])

\* the rows of bus b stamped within [from, to], in timestamp order
Window(rows, b, from, to) ==
  ByTimestamp(SelectSeq(rows, LAMBDA r : r.bus_id = b /\ from <= r.timestamp /\ r.timestamp <= to))

\* an endpoint that asks for one sample only
NoData(telemetry_data) == Len(telemetry_data) < 1

\* get_fuel_analytics: too few samples in the window to analyse
InsufficientData(telemetry_data) == Len(telemetry_data) < 2

\* GET /api/transport/fuel-analytics/<bus_id> by the logged-in user u: 404
\* for a bus that is not of the user's school, 400 when the trailing 30 days
\* hold fewer than 2 samples, else the efficiency and the fuel events of the
\* window (as a set: the order of the list is not modelled)
get_fuel_analytics(u, b, delays) ==
  /\ IF ~\E bus \in Buses : bus.id = b /\ bus.school_id = u.school_id
       THEN /\ last' = [op |-> "analytics", status |-> 404]
            /\ probe' = [done |-> TRUE, bus |-> b, out |-> << >>, events |-> {}]
            /\ UNCHANGED now
       ELSE \E dt \in delays :
              LET start_date == (now + dt) - AnalyticsDays * DayMinutes
                  telemetry_data == Window(telemetry, b, start_date, now + dt)
              IN  /\ now' = now + dt
                  /\ IF InsufficientData(telemetry_data)
                       THEN /\ last' = [op |-> "analytics", status |-> 400]
                            /\ probe' = [done |-> TRUE, bus |-> b, out |-> << >>, events |-> {}]
                       ELSE /\ last' = [op |-> "analytics", status |-> 200]
                            /\ probe' = [done |-> TRUE, bus |-> b,
                                         out |-> calculate_fuel_efficiency(telemetry_data),
                                         events |-> {fuel_events[i] : i \in
                                                       {j \in 1..Len(fuel_events) :
                                                          /\ fuel_events[j].bus_id = b
                                                          /\ fuel_events[j].timestamp >= start_date}}]
  /\ UNCHANGED <<telemetry, fuel_events, alerts, published, nextId, sessions, against, last_seen>>

\* generate_daily_fuel_report, one bus: yesterday's samples, and the
\* DAILY_SUMMARY event when they are more than one and fuel was consumed;
\* its amount is the rounded total, in hundredths of a litre
DailySummary(rows, b, start_time, end_time) ==
  LET telemetry_data == Window(rows, b, start_time, end_time)
  IN  IF Len(telemetry_data) > 1
        THEN LET efficiency == calculate_fuel_efficiency(telemetry_data)
             IN  IF efficiency # << >> /\ efficiency[1].total_fuel_consumed_l > 0
                   THEN << [bus_id |-> b, event_type |-> "DAILY_SUMMARY",
                            amount_liters |-> efficiency[1].total_fuel_consumed_l,
                            severity |-> "INFO", timestamp |-> end_time] >>
                   ELSE << >>
        ELSE << >>

\* the loop over the active buses, in id order
RECURSIVE DailySummaries(_, _, _, _)
DailySummaries(rows, ids, start_time, end_time) ==
  IF ids = {} THEN << >>
  ELSE LET b == CHOOSE x \in ids : \A y \in ids : x <= y
       IN  DailySummary(rows, b, start_time, end_time)
             \o DailySummaries(rows, ids \ {b}, start_time, end_time)

\* generate_daily_fuel_report (cron, 00:00): yesterday is the calendar day
\* before the clock's; end_time is its last instant
generate_daily_fuel_report(delays) ==
  \E dt \in delays :
    LET start_time == (((now + dt) \div DayMinutes) - 1) * DayMinutes
        end_time == start_time + DayMinutes - 1
        active == {bus.id : bus \in {x \in Buses : x.is_active}}
    IN  /\ fuel_events' = fuel_events \o DailySummaries(telemetry, active, start_time, end_time)
        /\ now' = now + dt
        /\ last' = [op |-> "daily_report", status |-> 200]
        /\ UNCHANGED <<telemetry, alerts, published, nextId, sessions, against, probe, last_seen>>

\* ----------------------------------------- the aggregator's specification
\* queries and reports made in one behaviour
AnalyticsTicks == 1
\* samples in the table
MaxRows == 3

\* the clock at the start: 10:00 on day 32
AnalyticsStart == 32 * DayMinutes + 600
\* sample times: 32 days ago, two during yesterday, one today
AnalyticsTimes ==
  << 0, 31 * DayMinutes + 60, 31 * DayMinutes + 120, 32 * DayMinutes + 60 >>
OdometerReadings == { 0, 100, 110 }
FuelReadings == { NONE, 0, L(44), L(45), L(50) }
Absent == << >>
Readings == { <<o, f>> : o \in OdometerReadings, f \in FuelReadings }

\* the table of bus 1 that holds the reading choice[i] at AnalyticsTimes[i]
AnalyticsTable(choice) ==
  LET idx == SelectSeq([i \in 1..Len(AnalyticsTimes) |-> i], LAMBDA i : choice[i] # Absent)
  IN  [k \in 1..Len(idx) |->
         HttpRow(k, 1,
                 [BasePayload EXCEPT !.odometer_km = choice[idx[k]][1],
                                     !.fuel_level_liters = choice[idx[k]][2]],
                 AnalyticsTimes[idx[k]])]

AnalyticsTables ==
  { AnalyticsTable(choice) :
      choice \in { c \in [1..Len(AnalyticsTimes) -> Readings \cup {Absent}] :
                     Cardinality({i \in 1..Len(AnalyticsTimes) : c[i] # Absent}) <= MaxRows } }

InitAnalytics ==
  /\ telemetry \in AnalyticsTables
  /\ fuel_events = << >>
  /\ alerts = << >>
  /\ published = << >>
  /\ against = << >>
  /\ now = AnalyticsStart
  /\ nextId = Len(telemetry) + 1
  /\ sessions = [w \in Workers |-> Idle]
  /\ last_seen = [b \in BusIds |-> NONE]
  /\ last = [op |-> "start", status |-> 200]
  /\ probe = NoProbe

NextAnalytics ==
  /\ now < AnalyticsStart + AnalyticsTicks * 10
  /\ \/ \E u \in Users, b \in AddressedIds : get_fuel_analytics(u, b, Delays)
     \/ generate_daily_fuel_report(Delays)

SpecAnalytics == InitAnalytics /\ [][NextAnalytics]_vars

\* ------------------------------------------------ claims on the aggregator
\* the trailing 30 days of bus b at time t, and yesterday's day at time t
AnalyticsWindow(b, t) == Window(telemetry, b, t - 30 * 1440, t)
YesterdayWindow(rows, b, t) ==
  Window(rows, b, ((t \div 1440) - 1) * 1440, ((t \div 1440) - 1) * 1440 + 1439)

\* the design's pair rule: both readings taken, the odometer strictly up and
\* the fuel level strictly down in the same pair
Consuming(p, c) ==
  /\ p.odometer_km # NONE /\ c.odometer_km # NONE /\ c.odometer_km > p.odometer_km
  /\ p.fuel_level_liters # NONE /\ c.fuel_level_liters # NONE
  /\ c.fuel_level_liters < p.fuel_level_liters

RECURSIVE DesignDistance(_, _)
DesignDistance(data, n) ==
  IF n < 2 THEN 0
  ELSE DesignDistance(data, n - 1)
         + (IF Consuming(data[n - 1], data[n]) THEN data[n].odometer_km - data[n - 1].odometer_km ELSE 0)

RECURSIVE DesignFuel(_, _)
DesignFuel(data, n) ==
  IF n < 2 THEN 0
  ELSE DesignFuel(data, n - 1)
         + (IF Consuming(data[n - 1], data[n])
              THEN data[n - 1].fuel_level_liters - data[n].fuel_level_liters ELSE 0)

\* C12: the totals a fuel-analytics query reports are the sums over exactly
\* the adjacent pairs of the window in which the odometer strictly increased
\* and the fuel level strictly decreased (readings of exactly 0 included);
\* no other pair adds distance or fuel, and the distance is never negative.
C12_TotalsOverConsumingPairs ==
  (last.op = "analytics" /\ last.status = 200) =>
    LET data == AnalyticsWindow(probe.bus, now)
        out == probe.out[1]
    IN  /\ out.total_distance_km = 100 * DesignDistance(data, Len(data))
        /\ out.total_fuel_consumed_l * UPL = 100 * DesignFuel(data, Len(data))
        /\ out.total_distance_km >= 0

\* C13: the reported overall_kmpl is total distance / total fuel consumed to
\* the nearest hundredth, 0 when no fuel was consumed; overall_l_per_100km is
\* total fuel / total distance x 100 to the nearest hundredth, 0 when no
\* distance was covered; the window 100 -> 110 km, 50 -> 45 L reports
\* distance 10, fuel 5, 2.0 km/L and 50.0 L/100km.
C13_OverallRatios ==
  (last.op = "analytics" /\ last.status = 200) =>
    LET data == AnalyticsWindow(probe.bus, now)
        out == probe.out[1]
        D == out.total_distance_km
        F == out.total_fuel_consumed_l
    IN  /\ F = 0 => out.overall_kmpl = 0
        /\ F > 0 => 2 * Abs(out.overall_kmpl * F - 100 * D) <= F
        /\ D = 0 => out.overall_l_per_100km = 0
        /\ D > 0 => 2 * Abs(out.overall_l_per_100km * D - 10000 * F) <= D
        /\ ( /\ Len(data) = 2
             /\ data[1].odometer_km = 100 /\ data[2].odometer_km = 110
             /\ data[1].fuel_level_liters = L(50) /\ data[2].fuel_level_liters = L(45) ) =>
             /\ D = 1000 /\ F = 500
             /\ out.overall_kmpl = 200
             /\ out.overall_l_per_100km = 5000

\* C13 witness: a query answered with a ratio that is no whole hundredth
\* (10 km on 6 L), after fuel was consumed
C13_Witness ==
  /\ last.op = "analytics" /\ last.status = 200
  /\ probe.out[1].total_distance_km = 1000
  /\ probe.out[1].total_fuel_consumed_l = 600
  /\ probe.out[1].overall_kmpl = 167

\* C14: a fuel-analytics query on a bus of the caller's school whose window
\* holds fewer than 2 samples is answered 400 (insufficient data) without
\* statistics, and the daily report adds no DAILY_SUMMARY event for a bus
\* with fewer than 2 samples in the day.
C14_InsufficientData ==
  [][ /\ \A u \in Users, b \in BusIds :
           ( /\ get_fuel_analytics(u, b, Delays)
             /\ BusById(b).school_id = u.school_id
             /\ Len(AnalyticsWindow(b, now')) < 2 ) =>
             (last'.status = 400 /\ probe'.out = << >>)
      /\ generate_daily_fuel_report(Delays) =>
           \A b \in BusIds :
             Len(YesterdayWindow(telemetry, b, now')) < 2 =>
               ~\E i \in (Len(fuel_events) + 1)..Len(fuel_events') :
                  fuel_events'[i].bus_id = b /\ fuel_events'[i].event_type = "DAILY_SUMMARY"
    ]_vars

\* C14 witness: the query was answered 400 for a bus that has samples, one of
\* them in the window
C14_Witness ==
  /\ last.op = "analytics" /\ last.status = 400
  /\ probe.out = << >>
  /\ Len(BusRows(telemetry, probe.bus)) >= 2
  /\ Len(AnalyticsWindow(probe.bus, now)) = 1

\* ========================================================= the offline monitor
OfflineMinutes == 60

\* the timestamp of the oldest sample of bus b
OldestTimestamp(rows, b) ==
  LET mine == BusRows(rows, b)
  IN  CHOOSE t \in {mine[i].timestamp : i \in 1..Len(mine)} :
        \A i \in 1..Len(mine) : mine[i].timestamp >= t

\* the timestamp of the latest sample of bus b (order_by(timestamp.desc()).first())
LatestTimestamp(rows, b) ==
  LET mine == BusRows(rows, b)
  IN  CHOOSE t \in {mine[i].timestamp : i \in 1..Len(mine)} :
        \A i \in 1..Len(mine) : mine[i].timestamp <= t

\* a monitor that raises its alert whether or not one is open
OfflineAlertAlways(rows, open, bus, t) ==
  IF /\ BusRows(rows, bus.id) # << >>
     /\ t - LatestTimestamp(rows, bus.id) > OfflineMinutes
    THEN << AlertRow(bus.id, "WARNING", "Bus Offline", t) >>
    ELSE << >>

\* check_bus_offline, one bus of the loop: the alert added to the session
\* when the bus has telemetry, the latest is more than an hour old and no
\* unacknowledged 'Bus Offline' alert of the bus is among open, the alerts
\* the session sees
OfflineAlert(rows, open, bus, t) ==
  IF /\ BusRows(rows, bus.id) # << >>
     /\ t - LatestTimestamp(rows, bus.id) > OfflineMinutes
     /\ ~\E i \in 1..Len(open) :
          /\ open[i].bus_id = bus.id
          /\ open[i].title = "Bus Offline"
          /\ ~open[i].is_acknowledged
    THEN << AlertRow(bus.id, "WARNING", "Bus Offline", t) >>
    ELSE << >>

\* the loop over the active buses, in id order; the session's own alerts are
\* flushed before each query
RECURSIVE OfflineAlerts(_, _, _, _)
OfflineAlerts(rows, open, ids, t) ==
  IF ids = {} THEN << >>
  ELSE LET b == CHOOSE x \in ids : \A y \in ids : x <= y
           mine == OfflineAlert(rows, open, BusById(b), t)
       IN  mine \o OfflineAlerts(rows, open \o mine, ids \ {b}, t)

\* check_bus_offline (every 10 minutes): one commit after the loop. The
\* alert's timestamp is the column default, read at the flush; the model
\* reads the clock once per tick.
check_bus_offline(delays) ==
  \E dt \in delays :
    LET active == {bus.id : bus \in {x \in Buses : x.is_active}}
    IN  /\ alerts' = alerts \o OfflineAlerts(telemetry, alerts, active, now + dt)
        /\ now' = now + dt
        /\ last' = [op |-> "check_bus_offline", status |-> 200]
        /\ UNCHANGED <<telemetry, fuel_events, published, nextId, sessions, against, probe, last_seen>>

\* ------------------------------------------- the monitor's specification
\* the clock is not read past this time (minutes)
MonitorEnd == 215
\* half an hour, and a minute more: two make an hour, or just over
MonitorDelays == {30, 31}
MonitorTicks == Within(MonitorDelays, MonitorEnd)

NextMonitor ==
  \/ \E b \in BusIds : receive_telemetry(b, BusById(b).api_key, BasePayload, Room(MonitorTicks, MaxSamples))
  \/ \E u \in Users, alert_id \in 1..Len(alerts) : acknowledge_alert(u, alert_id, MonitorTicks)
  \/ check_bus_offline(MonitorTicks)

SpecMonitor == Init /\ [][NextMonitor]_vars

\* ---------------------------------------------------- claims on the monitor
\* the 'Bus Offline' alerts of bus b in an alerts table, and the open ones
OfflineOf(tbl, b) == {i \in 1..Len(tbl) : tbl[i].bus_id = b /\ tbl[i].title = "Bus Offline"}
OpenOfflineOf(tbl, b) == {i \in OfflineOf(tbl, b) : ~tbl[i].is_acknowledged}
\* bus b has delivered a sample, and the time of the last one
Seen(b) == BusRows(telemetry, b) # << >>
LastSample(b) ==
  LET mine == BusRows(telemetry, b)
  IN  CHOOSE t \in {mine[i].timestamp : i \in 1..Len(mine)} :
        \A i \in 1..Len(mine) : mine[i].timestamp <= t
\* the alerts a step adds for bus b
AddedFor(b) == {i \in (Len(alerts) + 1)..Len(alerts') : alerts'[i].bus_id = b}

C16_OfflineAgainAfterAck ==
  [][ check_bus_offline(MonitorTicks) =>
        \A b \in BusIds :
          ( /\ OfflineOf(alerts, b) # {}
            /\ \A i \in OfflineOf(alerts, b) :
                 alerts[i].is_acknowledged /\ alerts[i].acknowledged_at < LastSample(b) ) =>
            IF now' - LastSample(b) <= 60
              THEN OfflineOf(alerts', b) = OfflineOf(alerts, b)
              ELSE /\ Cardinality(OfflineOf(alerts', b)) = Cardinality(OfflineOf(alerts, b)) + 1
                   /\ Cardinality(OpenOfflineOf(alerts', b)) = 1
    ]_vars

\* C16 witness: an acknowledged 'Bus Offline' alert, a sample after the
\* acknowledgment, and the new alert of the next outage
C16_Witness ==
  /\ last.op = "check_bus_offline"
  /\ \E b \in BusIds : \E i, j \in OfflineOf(alerts, b) :
       /\ alerts[i].is_acknowledged
       /\ alerts[i].acknowledged_at < LastSample(b)
       /\ ~alerts[j].is_acknowledged
       /\ alerts[j].timestamp = now
       /\ LastSample(b) < now - 60

\* C17: the last_seen of a bus that has delivered samples is the timestamp of
\* its most recently accepted sample, in every state.
C17_LastSeenIsLatestSample ==
  \A b \in BusIds : Seen(b) => last_seen[b] = LastSample(b)

\* ======================================================= the retention reaper
RetentionDays == 90

\* a reaper that also deletes the sample stamped at the cutoff
ExpiredOrDue(row, cutoff_date) == row.timestamp <= cutoff_date

\* the filter of the delete: Telemetry.timestamp < cutoff_date
Expired(row, cutoff_date) == row.timestamp < cutoff_date

\* cleanup_old_telemetry (every 30 minutes): one bulk delete, then the commit
cleanup_old_telemetry(delays) ==
  \E dt \in delays :
    LET cutoff_date == (now + dt) - RetentionDays * DayMinutes
    IN  /\ telemetry' = SelectSeq(telemetry, LAMBDA r : ~Expired(r, cutoff_date))
        /\ now' = now + dt
        /\ last' = [op |-> "cleanup_old_telemetry", status |-> 200]
        /\ UNCHANGED <<fuel_events, alerts, published, nextId, sessions, against, probe, last_seen>>

\* -------------------------------------------- the reaper's specification
\* ticks of 10 minutes after the start of the behaviour
ReaperSteps == 3
\* the clock at the start: 90 days and 10 minutes
ReaperStart == RetentionDays * DayMinutes + 10
ReaperTicks == Within(Delays, ReaperStart + ReaperSteps * 10)

\* the samples in the table at the start: up to MaxSamples of them, stamped
\* around the retention horizon of the ticks to come
ReaperTimes == << 0, 10, 20, 30 >>
ReaperTable(choice) ==
  LET idx == SelectSeq([i \in 1..Len(ReaperTimes) |-> i], LAMBDA i : choice[i] # 0)
  IN  [k \in 1..Len(idx) |-> HttpRow(k, choice[idx[k]], BasePayload, ReaperTimes[idx[k]])]
ReaperTables ==
  { ReaperTable(choice) :
      choice \in { c \in [1..Len(ReaperTimes) -> BusIds \cup {0}] :
                     Cardinality({i \in 1..Len(ReaperTimes) : c[i] # 0}) <= MaxSamples } }

ReaperPayloads == { BasePayload, [BasePayload EXCEPT !.fuel_level_liters = L(15)] }

InitReaper ==
  /\ telemetry \in ReaperTables
  /\ fuel_events = << >>
  /\ alerts = << >>
  /\ published = << >>
  /\ against = << >>
  /\ now = ReaperStart
  /\ nextId = Len(telemetry) + 1
  /\ sessions = [w \in Workers |-> Idle]
  /\ last_seen = [b \in BusIds |-> NONE]
  /\ last = [op |-> "start", status |-> 200]
  /\ probe = NoProbe

NextReaper ==
  \/ cleanup_old_telemetry(ReaperTicks)
  \/ \E b \in BusIds, d \in ReaperPayloads : receive_telemetry(b, BusById(b).api_key, d, Room(ReaperTicks, MaxSamples))
  \/ \E b \in BusIds, d \in ReaperPayloads : on_message(BusById(b).school_id, b, d, Room(ReaperTicks, MaxSamples))
  \/ \E u \in Users, alert_id \in 1..Len(alerts) : acknowledge_alert(u, alert_id, ReaperTicks)
  \/ check_bus_offline(ReaperTicks)

SpecReaper == InitReaper /\ [][NextReaper]_vars

\* ----------------------------------------------------- claims on the reaper
\* the rows of a telemetry table, as a set
RowsOf(tbl) == {tbl[i] : i \in 1..Len(tbl)}

\* C18: a reaper tick deletes exactly the samples stamped more than 90 days
\* before the tick and leaves every newer sample, every FuelEvent and every
\* Alert as they were; no other operation deletes or changes a stored sample.
C18_ReaperDeletesOnlyOld ==
  [][ /\ cleanup_old_telemetry(ReaperTicks) =>
           /\ RowsOf(telemetry') = {r \in RowsOf(telemetry) : now' - r.timestamp <= 90 * 1440}
           /\ Len(telemetry') = Cardinality(RowsOf(telemetry'))
           /\ UNCHANGED <<fuel_events, alerts>>
      /\ last'.op # "cleanup_old_telemetry" =>
           /\ Len(telemetry') >= Len(telemetry)
           /\ \A i \in 1..Len(telemetry) : telemetry'[i] = telemetry[i]
    ]_vars

\* C18 witness: a tick has deleted a sample and kept the one stamped exactly
\* 90 days before it, with alerts in the table
C18_Witness ==
  /\ last.op = "cleanup_old_telemetry"
  /\ Len(telemetry) < nextId - 1
  /\ \E i \in 1..Len(telemetry) : now - telemetry[i].timestamp = 90 * 1440
  /\ alerts # << >>

\* ===================================================== the realtime publisher
\* on_join_transport_room: the room a logged-in user's socket joins
RoomOf(u) == u.school_id

\* a commit undone by the failed emit
RolledBack(s) ==
  UNCHANGED <<telemetry, fuel_events, alerts, published, against, last_seen>>

\* db.session.commit() followed by a socketio.emit that raises: the rows are
\* committed, no message goes out
CommitUnpublished(s) ==
  /\ UNCHANGED <<published, last_seen>>
  /\ telemetry' = Append(telemetry, s.tel)
  /\ fuel_events' = fuel_events \o s.events
  /\ alerts' = alerts \o s.alerts
  /\ against' = Append(against, <<s.tel.id, s.prev>>)

\* receive_telemetry when the emit raises: the exception is caught next to
\* the emit (logged as a warning) and the handler answers 200
receive_telemetry_emit_failed(b, key, d, delays) ==
  /\ HttpStatus(b, key, d) = 200
  /\ \E dt \in delays :
       /\ \E s \in HttpSessions(b, d, dt) : CommitUnpublished(s)
       /\ now' = now + dt
       /\ nextId' = nextId + 1
  /\ last' = [op |-> "http", status |-> 200, emit |-> FALSE]
  /\ UNCHANGED <<sessions, probe>>

\* on_message when the emit raises: the exception reaches the handler's outer
\* except, after the commit, and is logged; the sample stays accepted
on_message_emit_failed(school, b, d, delays) ==
  /\ MqttKnown(school, b)
  /\ \E dt \in delays :
       /\ \E s \in MqttSessions(school, b, d, dt) : CommitUnpublished(s)
       /\ now' = now + dt
       /\ nextId' = nextId + 1
  /\ last' = [op |-> "mqtt", status |-> 200, emit |-> FALSE]
  /\ UNCHANGED <<sessions, probe>>

\* ------------------------------------------ the publisher's specification
PublishPayloads == ConcPayloads \cup { [BasePayload EXCEPT !.speed_kmh = 201] }

NextPublish ==
  \/ \E b \in AddressedIds, key \in Keys, d \in PublishPayloads : receive_telemetry(b, key, d, IngestTicks)
  \/ \E school \in SchoolIds, b \in AddressedIds, d \in PublishPayloads : on_message(school, b, d, IngestTicks)
  \/ \E b \in BusIds, d \in PublishPayloads :
       receive_telemetry_emit_failed(b, BusById(b).api_key, d, IngestTicks)
  \/ \E b \in BusIds, d \in PublishPayloads :
       on_message_emit_failed(BusById(b).school_id, b, d, IngestTicks)

SpecPublish == Init /\ [][NextPublish]_vars

\* -------------------------------------------------- claims on the publisher
\* the last message published and the last sample stored after a step
NewMessage == published'[Len(published')]
NewSample == telemetry'[Len(telemetry')]

\* C19: an accepted sample whose emit goes through causes exactly one update
\* message, for the sample just stored, addressed to the room of the school
\* that owns the bus; a rejected sample causes none; no step publishes more
\* messages than it stores samples; and no message about a bus is in the room
\* of a user of another school.
C19_OneUpdateToOwnersRoom ==
  [][ /\ \A b \in BusIds, d \in PublishPayloads :
           AcceptedIngestion(b, d) =>
             /\ Len(telemetry') = Len(telemetry) + 1
             /\ published' = Append(published, NewMessage)
             /\ NewSample.bus_id = b
             /\ NewMessage.bus_id = b
             /\ NewMessage.room = BusById(b).school_id
             /\ NewMessage.timestamp = NewSample.timestamp
             /\ NewMessage.latitude = NewSample.latitude
             /\ NewMessage.longitude = NewSample.longitude
             /\ NewMessage.speed_kmh = NewSample.speed_kmh
             /\ NewMessage.fuel_level_liters = NewSample.fuel_level_liters
             /\ NewMessage.engine_on = NewSample.engine_on
      /\ \A b \in AddressedIds, key \in Keys, d \in PublishPayloads :
           (receive_telemetry(b, key, d, IngestTicks) /\ HttpStatus(b, key, d) # 200) =>
             published' = published
      /\ \A school \in SchoolIds, b \in AddressedIds, d \in PublishPayloads :
           (on_message(school, b, d, IngestTicks) /\ ~MqttKnown(school, b)) =>
             published' = published
      /\ Len(published') - Len(published) <= Len(telemetry') - Len(telemetry)
      /\ \A i \in 1..Len(published'), u \in Users :
           RoomOf(u) = published'[i].room =>
             BusById(published'[i].bus_id).school_id = u.school_id
    ]_vars

\* C19 witness: two accepted samples, of buses of two schools, each with its
\* message
C19_Witness ==
  /\ last.op \in {"http", "mqtt"} /\ last.status = 200
  /\ Len(telemetry) = 2 /\ Len(published) = 2
  /\ published[1].room # published[2].room

\* C20: when the emit fails for an accepted sample, the sample and the
\* FuelEvent and Alerts its session held are persisted all the same, nothing
\* is published, and the HTTP call is answered 200.
C20_PublishFailureKeepsRows ==
  [][ \A b \in BusIds, d \in PublishPayloads :
        /\ receive_telemetry_emit_failed(b, BusById(b).api_key, d, IngestTicks) =>
             /\ last'.status = 200
             /\ published' = published
             /\ \E s \in HttpSessions(b, d, now' - now) :
                  /\ telemetry' = Append(telemetry, s.tel)
                  /\ fuel_events' = fuel_events \o s.events
                  /\ alerts' = alerts \o s.alerts
        /\ on_message_emit_failed(BusById(b).school_id, b, d, IngestTicks) =>
             /\ published' = published
             /\ \E s \in MqttSessions(BusById(b).school_id, b, d, now' - now) :
                  /\ telemetry' = Append(telemetry, s.tel)
                  /\ fuel_events' = fuel_events \o s.events
                  /\ alerts' = alerts \o s.alerts
    ]_vars

\* C20 witness: an accepted sample with its THEFT event and alert stored and
\* no message published for it
C20_Witness ==
  /\ "emit" \in DOMAIN last
  /\ last.status = 200
  /\ Len(published) < Len(telemetry)
  /\ \E i \in 1..Len(fuel_events) :
       /\ fuel_events[i].event_type = "THEFT"
       /\ fuel_events[i].timestamp = now
  /\ \E i \in 1..Len(alerts) : alerts[i].timestamp = now

\* ============================================ the rule engine on its own
\* ingestions made in one behaviour
RuleSteps == 1
\* the clock at the start, and the one delay to the flush of the sample
RuleStart == 20
RuleDelays == {1}
RuleTicks == Within(RuleDelays, RuleStart + RuleSteps)

\* the earlier samples of bus 1: one before the idling window of the sample
\* to come, five within it; each is absent, idling, or moving
RuleTimes == << 5, 12, 13, 14, 15, 16 >>
RuleTable(choice) ==
  LET idx == SelectSeq([i \in 1..Len(RuleTimes) |-> i], LAMBDA i : choice[i] # "absent")
  IN  [k \in 1..Len(idx) |->
         MqttRow(k, 1,
                 [BasePayload EXCEPT !.speed_kmh = IF choice[idx[k]] = "idle" THEN 0 ELSE 40,
                                     !.engine_on = TRUE],
                 RuleTimes[idx[k]])]
RuleTables ==
  { RuleTable(choice) : choice \in [1..Len(RuleTimes) -> {"absent", "idle", "moving"}] }

\* samples around the thresholds of the rules, for the 100 L tank of bus 1
RuleMotions == { <<0, TRUE>>, <<0, FALSE>>, <<80, TRUE>>, <<81, TRUE>> }
RuleFuel == { NONE, L(10) - 1, L(10), L(20) - 1, L(20), L(50) }
RulePayloads ==
  { [BasePayload EXCEPT !.speed_kmh = m[1], !.engine_on = m[2], !.fuel_level_liters = f] :
      m \in RuleMotions, f \in RuleFuel }

InitRules ==
  /\ telemetry \in RuleTables
  /\ fuel_events = << >>
  /\ alerts = << >>
  /\ published = << >>
  /\ against = << >>
  /\ now = RuleStart
  /\ nextId = Len(telemetry) + 1
  /\ sessions = [w \in Workers |-> Idle]
  /\ last_seen = [b \in BusIds |-> NONE]
  /\ last = [op |-> "start", status |-> 200]
  /\ probe = NoProbe

NextRules ==
  \/ \E d \in RulePayloads : receive_telemetry(1, BusById(1).api_key, d, RuleTicks)
  \/ \E d \in RulePayloads : on_message(BusById(1).school_id, 1, d, RuleTicks)

SpecRules == InitRules /\ [][NextRules]_vars

\* ------------------------------------------------ claims on the rule engine
\* the last step was an accepted ingestion; the sample it stored; the alerts
\* of a title stamped with the sample
Accepted == last.op \in {"http", "mqtt"} /\ last.status = 200 /\ telemetry # << >>
Current == telemetry[Len(telemetry)]
AlertsFor(r, title) ==
  {i \in 1..Len(alerts) :
     alerts[i].bus_id = r.bus_id /\ alerts[i].title = title /\ alerts[i].timestamp = r.timestamp}

\* C21: after the ingestion of an accepted sample with speed above 80 km/h a
\* WARNING 'Speed Limit Exceeded' alert of the sample stands for the bus, with
\* or without a fuel level on the sample; a sample at 80 km/h or less has none.
C21_SpeedRuleOnEverySample ==
  Accepted =>
    /\ Current.speed_kmh > 80 =>
         \E i \in AlertsFor(Current, "Speed Limit Exceeded") : alerts[i].level = "WARNING"
    /\ Current.speed_kmh <= 80 => AlertsFor(Current, "Speed Limit Exceeded") = {}

\* C22: an accepted sample with a fuel level has one CRITICAL 'Low Fuel Level'
\* alert when the level is below 10% of the tank, one WARNING one when it is
\* in [10%, 20%), none at 20% or more; never two.
C22_LowFuelRule ==
  (Accepted /\ Current.fuel_level_liters # NONE) =>
    LET low == AlertsFor(Current, "Low Fuel Level")
        fuel100 == Current.fuel_level_liters * 100
        tank == TankOf(Current.bus_id)
    IN  /\ Cardinality(low) <= 1
        /\ fuel100 < 10 * tank => \E i \in low : alerts[i].level = "CRITICAL"
        /\ (10 * tank <= fuel100 /\ fuel100 < 20 * tank) => \E i \in low : alerts[i].level = "WARNING"
        /\ fuel100 >= 20 * tank => low = {}

\* C23: an accepted sample has an INFO 'Extended Idling Detected' alert
\* exactly when the bus's last 5 samples, the sample included, all lie in the
\* 10 minutes before it and all have speed 0 and the engine on.
C23_IdlingRule ==
  Accepted =>
    LET rows == BusRows(telemetry, Current.bus_id)
        n == Len(rows)
        idling == /\ n >= 5
                  /\ \A k \in (n - 4)..n :
                       /\ rows[k].timestamp >= Current.timestamp - 10
                       /\ rows[k].speed_kmh = 0 /\ rows[k].engine_on
        found == AlertsFor(Current, "Extended Idling Detected")
    IN  /\ idling => (Cardinality(found) = 1 /\ \A i \in found : alerts[i].level = "INFO")
        /\ ~idling => found = {}

\* ------------------------------------------------ claims on the IDLE rule
\* C24: when none of REFUEL, THEFT, EXCESSIVE_CONSUMPTION matches, the
\* classifier emits IDLE, of severity WARNING, exactly when the current sample
\* has speed 0 and the engine on, the fuel dropped by more than 0.5 L and at
\* least 0.5 hours lie between the two samples, exactly 30 minutes included.
C24_IdleRule ==
  (probe.done /\ ProbeHasFuel /\ \A k \in RulesHolding : RuleOrder[k] = "IDLE") =>
    /\ RuleHolds("IDLE") =>
         (Len(probe.out) = 1 /\ probe.out[1].type = "IDLE" /\ probe.out[1].severity = "WARNING")
    /\ ~RuleHolds("IDLE") => probe.out = << >>

\* ======================================= samples flushed at one clock reading
\* samples stored in one behaviour
CoarseRows == 3
\* datetime.utcnow() may read the same at two flushes in a row
CoarseDelays == {0, 10}
CoarseTicks == Room(Within(CoarseDelays, MaxTime), CoarseRows)
CoarsePayloads ==
  { [BasePayload EXCEPT !.fuel_level_liters = f] : f \in {L(15), L(50), L(65)} }

NextCoarse ==
  \/ \E b \in BusIds, d \in CoarsePayloads :
       receive_telemetry(b, BusById(b).api_key, d, CoarseTicks)
  \/ \E b \in BusIds, d \in CoarsePayloads :
       on_message(BusById(b).school_id, b, d, CoarseTicks)

SpecCoarse == Init /\ [][NextCoarse]_vars

\* the positions of the stored samples of the bus of sample id that were
\* stored before it with a strictly earlier timestamp
StrictlyEarlier(id) ==
  LET row == CHOOSE r \in {telemetry[k] : k \in 1..Len(telemetry)} : r.id = id
  IN  {k \in 1..Len(telemetry) :
         /\ telemetry[k].bus_id = row.bus_id
         /\ telemetry[k].id < id
         /\ telemetry[k].timestamp < row.timestamp}

\* C25: every stored sample, one whose timestamp is not after that of the
\* bus's last stored sample included, was classified against the latest
\* stored sample of its bus with a strictly earlier timestamp, and against
\* none when there is none: never against a sample of equal timestamp nor
\* against itself.
C25_ClassifiedAgainstStrictlyEarlier ==
  \A i \in 1..Len(against) :
    LET id == against[i][1]
        prev == against[i][2]
    IN  /\ \E k \in 1..Len(telemetry) : telemetry[k].id = id
        /\ IF StrictlyEarlier(id) = {} THEN prev = 0
           ELSE \E k \in StrictlyEarlier(id) :
                  /\ telemetry[k].id = prev
                  /\ \A m \in StrictlyEarlier(id) : telemetry[m].timestamp <= telemetry[k].timestamp

\* ================================================ the jobs and their failures
\* check_bus_offline when a query of the loop, for bus k, or the commit
\* raises: the except clause logs the error and rolls the session back, the
\* alerts added for the buses scanned before k included; the scheduler calls
\* the job again at the next interval
check_bus_offline_failed(delays) ==
  \E dt \in delays, k \in {bus.id : bus \in {x \in Buses : x.is_active}} :
    /\ now' = now + dt
    /\ last' = [op |-> "check_bus_offline", status |-> 500, at |-> k]
    /\ UNCHANGED <<telemetry, fuel_events, alerts, published, nextId, sessions, against, probe, last_seen>>

\* cleanup_old_telemetry when the delete or the commit raises: logged and
\* rolled back
cleanup_old_telemetry_failed(delays) ==
  \E dt \in delays :
    /\ now' = now + dt
    /\ last' = [op |-> "cleanup_old_telemetry", status |-> 500]
    /\ UNCHANGED <<telemetry, fuel_events, alerts, published, nextId, sessions, against, probe, last_seen>>

\* ticks of 10 minutes the clock makes after the start, samples stored and
\* acknowledgments made in one behaviour
JobSteps == 1
JobRows == 3
JobAcks == 1
\* the clock at the start: 90 days; a job may also run with the clock where
\* the step before left it
JobsStart == RetentionDays * DayMinutes
JobDelays == {0, 10}
JobTicks == Within(JobDelays, JobsStart + JobSteps * 10)

\* the samples in the table at the start: for each bus none, one that is 90
\* days old, or one that is 70 minutes old; each was published when stored
JobTimes == {NONE, 0, JobsStart - 70}
JobTable(choice) ==
  LET ids == SelectSeq([i \in 1..Cardinality(BusIds) |-> i], LAMBDA b : choice[b] # NONE)
  IN  [k \in 1..Len(ids) |-> HttpRow(k, ids[k], BasePayload, choice[ids[k]])]
JobTables == { JobTable(choice) : choice \in [BusIds -> JobTimes] }

InitJobs ==
  /\ telemetry \in JobTables
  /\ published = [k \in 1..Len(telemetry) |->
                    UpdateMessage(telemetry[k], BusById(telemetry[k].bus_id).school_id)]
  /\ fuel_events = << >>
  /\ alerts = << >>
  /\ against = << >>
  /\ now = JobsStart
  /\ nextId = Len(telemetry) + 1
  /\ sessions = [w \in Workers |-> Idle]
  /\ last_seen = [b \in BusIds |-> NONE]
  /\ last = [op |-> "start", status |-> 200]
  /\ probe = NoProbe

NextJobs ==
  \/ check_bus_offline(JobTicks)
  \/ check_bus_offline_failed(JobTicks)
  \/ cleanup_old_telemetry(JobTicks)
  \/ cleanup_old_telemetry_failed(JobTicks)
  \/ \E b \in BusIds : receive_telemetry(b, BusById(b).api_key, BasePayload, Room(JobTicks, JobRows))
  \/ \E u \in Users, alert_id \in 1..Len(alerts) :
       /\ Cardinality({i \in 1..Len(alerts) : alerts[i].is_acknowledged}) < JobAcks
       /\ acknowledge_alert(u, alert_id, JobTicks)

SpecJobs == InitJobs /\ [][NextJobs]_vars

\* the scheduler runs both jobs at every interval for as long as the process
\* lives, and the store is available again and again
SpecJobsFair ==
  /\ SpecJobs
  /\ WF_vars(check_bus_offline(JobTicks))
  /\ WF_vars(cleanup_old_telemetry(JobTicks))

\* ------------------------------------------------------ claims on the jobs
\* C26: when a monitor tick fails while scanning bus k, the 'Bus Offline'
\* alert decided in that tick for each bus scanned before k is persisted: a
\* bus scanned before k whose last sample is more than 1 hour old has an
\* unacknowledged 'Bus Offline' alert after the tick.
C26_MonitorCommitsPerVehicle ==
  (last.op = "check_bus_offline" /\ last.status = 500) =>
    \A b \in BusIds :
      (b < last.at /\ Seen(b) /\ now - LastSample(b) > 60) => OpenOfflineOf(alerts, b) # {}

\* the time of the last accepted sample of bus b, kept by the updates sent
\* when the samples were stored, and the bus being stale: that time is more
\* than 1 hour ago
EverSeen(b) == \E i \in 1..Len(published) : published[i].bus_id = b
LastAccepted(b) ==
  CHOOSE t \in {published[i].timestamp : i \in {j \in 1..Len(published) : published[j].bus_id = b}} :
    \A i \in 1..Len(published) : published[i].bus_id = b => published[i].timestamp <= t
StaleBus(b) == EverSeen(b) /\ now - LastAccepted(b) > 60
\* sample id is in the table; it is there and older than 90 days
Stored(id) == \E k \in 1..Len(telemetry) : telemetry[k].id = id
Overdue(id) ==
  \E k \in 1..Len(telemetry) :
    telemetry[k].id = id /\ now - telemetry[k].timestamp > 90 * 1440

\* C27: a failed tick of the reaper or of the monitor leaves the store as it
\* was, and with both jobs run again and again every sample older than 90 days
\* is eventually deleted and every bus whose last accepted sample is more than
\* 1 hour old eventually has an unacknowledged 'Bus Offline' alert, unless it
\* reports again.
C27_JobsSurviveFailures ==
  /\ [][ (check_bus_offline_failed(JobTicks) \/ cleanup_old_telemetry_failed(JobTicks)) =>
           UNCHANGED <<telemetry, fuel_events, alerts, last_seen>> ]_vars
  /\ \A id \in 1..JobRows : Overdue(id) ~> ~Stored(id)
  /\ \A b \in BusIds : StaleBus(b) ~> (OpenOfflineOf(alerts, b) # {} \/ ~StaleBus(b))

\* ============================================== ingestion and store failures
\* receive_telemetry when the store raises after validation, at a query, a
\* flush or the commit: the outer except rolls the session back and the
\* handler answers 500
receive_telemetry_store_failed(b, key, d, delays) ==
  /\ HttpStatus(b, key, d) = 200
  /\ \E dt \in delays : now' = now + dt
  /\ last' = [op |-> "http", status |-> 500]
  /\ UNCHANGED <<telemetry, fuel_events, alerts, published, nextId, against, last_seen, sessions, probe>>

\* on_message when the store raises before the commit has succeeded: the
\* outer except logs the error, and leaving the application context drops
\* the session with what was added to it
on_message_store_failed(school, b, d, delays) ==
  /\ MqttKnown(school, b)
  /\ \E dt \in delays : now' = now + dt
  /\ last' = [op |-> "mqtt", status |-> 500]
  /\ UNCHANGED <<telemetry, fuel_events, alerts, published, nextId, against, last_seen, sessions, probe>>

FailurePayloads ==
  ConcPayloads \cup
    { [BasePayload EXCEPT !.speed_kmh = 90, !.engine_on = TRUE, !.fuel_level_liters = NONE],
      [BasePayload EXCEPT !.latitude = 91] }

NextFailures ==
  \/ \E b \in BusIds, d \in FailurePayloads :
       receive_telemetry(b, BusById(b).api_key, d, IngestTicks)
  \/ \E b \in BusIds, d \in FailurePayloads :
       on_message(BusById(b).school_id, b, d, IngestTicks)
  \/ \E b \in BusIds, d \in FailurePayloads :
       receive_telemetry_store_failed(b, BusById(b).api_key, d, Ticks)
  \/ \E b \in BusIds, d \in FailurePayloads :
       on_message_store_failed(BusById(b).school_id, b, d, Ticks)

SpecFailures == Init /\ [][NextFailures]_vars

\* ------------------------------------------------- claims on one ingestion
\* table tbl' extends tbl: the rows committed before are as they were
Extends(new, old) == Len(new) >= Len(old) /\ SubSeq(new, 1, Len(old)) = old

\* C28: an ingestion call, whatever its outcome, leaves the rows committed
\* before as they were, and either stores nothing, or stores the sample with
\* the event and alert of its classification and with every alert the rules
\* call for on its data: 'Speed Limit Exceeded' above 80 km/h, 'Low Fuel
\* Level' below 20% of the tank.
C28_IngestionAllOrNothing ==
  [][ last'.op \in {"http", "mqtt"} =>
        /\ Extends(telemetry', telemetry)
        /\ Extends(fuel_events', fuel_events)
        /\ Extends(alerts', alerts)
        /\ IF Len(telemetry') = Len(telemetry)
             THEN fuel_events' = fuel_events /\ alerts' = alerts
             ELSE LET r == telemetry'[Len(telemetry')]
                      added == {alerts'[i].title : i \in (Len(alerts) + 1)..Len(alerts')}
                  IN  /\ Len(telemetry') = Len(telemetry) + 1
                      /\ \A title \in RuleTitles : Triggers(r, r.bus_id, title) => title \in added
                      /\ \A i \in (Len(fuel_events) + 1)..Len(fuel_events') :
                           fuel_events'[i].severity \in {"WARNING", "CRITICAL"} =>
                             \E title \in added : title \notin RuleTitles
    ]_vars

\* ===================================================== the alerts of a school
\* the users of the alert pages: two of school 1, one of school 2
AlertUsers == Users \cup { [id |-> 3, school_id |-> 1] }

\* limit(50)
AlertsLimit == 50

\* an alert query without the school filter
AlertsOfAnySchool(school) == 1..Len(alerts)

\* Alert.query.join(Bus).filter(Bus.school_id == current_user.school_id): the
\* ids of the alerts of the buses of the school
AlertsOfSchool(school) ==
  {i \in 1..Len(alerts) : BusById(alerts[i].bus_id).school_id = school}

\* order_by(Alert.timestamp.desc()): the orders the database may give the
\* alerts ids, alerts of one timestamp in either order
NewestFirst(ids) ==
  { f \in [1..Cardinality(ids) -> ids] :
      /\ \A j, k \in 1..Cardinality(ids) : j # k => f[j] # f[k]
      /\ \A k \in 1..(Cardinality(ids) - 1) : alerts[f[k]].timestamp >= alerts[f[k + 1]].timestamp }

\* one entry of alerts_data; the bus is named by its id
AlertData(i) ==
  [id |-> i, bus_name |-> alerts[i].bus_id, timestamp |-> alerts[i].timestamp,
   level |-> alerts[i].level, title |-> alerts[i].title,
   is_acknowledged |-> alerts[i].is_acknowledged]

\* GET /api/transport/alerts by the logged-in user u: the response is kept in
\* probe
get_alerts(u) ==
  /\ \E f \in NewestFirst(AlertsOfSchool(u.school_id)) :
       LET n == IF Len(f) < AlertsLimit THEN Len(f) ELSE AlertsLimit
       IN  probe' = [done |-> TRUE, school |-> u.school_id,
                     out |-> [k \in 1..n |-> AlertData(f[k])]]
  /\ last' = [op |-> "get_alerts", status |-> 200]
  /\ UNCHANGED <<telemetry, fuel_events, alerts, published, now, nextId, sessions, against, last_seen>>

NextAlerts ==
  \/ \E b \in BusIds, d \in ConcPayloads :
       receive_telemetry(b, BusById(b).api_key, d, IngestTicks)
  \/ \E u \in AlertUsers, alert_id \in 1..Len(alerts) : acknowledge_alert(u, alert_id, Ticks)
  \/ \E u \in AlertUsers : get_alerts(u)

SpecAlerts == Init /\ [][NextAlerts]_vars

\* ------------------------------------------------------ claims on the alerts
\* C29: no step removes an alert or changes the bus, the severity or the
\* title of one, and an acknowledged alert keeps its flag, its acknowledger
\* and its acknowledgment time under every later step, an acknowledge call by
\* another user included.
C29_AcknowledgedOnce ==
  [][ /\ Len(alerts') >= Len(alerts)
      /\ \A i \in 1..Len(alerts) :
           /\ alerts'[i].bus_id = alerts[i].bus_id
           /\ alerts'[i].level = alerts[i].level
           /\ alerts'[i].title = alerts[i].title
           /\ alerts[i].is_acknowledged => alerts'[i] = alerts[i]
    ]_vars

\* C30: an acknowledge call by a user of one school on an alert of a bus of
\* another school answers 404 and leaves the alerts as they are, and every
\* alert a get_alerts response lists is an alert of a bus of the caller's
\* school.
C30_TenantIsolation ==
  [][ /\ \A u \in AlertUsers, alert_id \in 1..Len(alerts) :
           ( /\ acknowledge_alert(u, alert_id, Ticks)
             /\ BusById(alerts[alert_id].bus_id).school_id # u.school_id ) =>
             (last'.status = 404 /\ alerts' = alerts)
      /\ probe'.done =>
           \A k \in 1..Len(probe'.out) :
             BusById(alerts'[probe'.out[k].id].bus_id).school_id = probe'.school
    ]_vars

\* C30 witness: a response that lists alerts while another school has alerts
\* too, and after it an acknowledge call on an alert of another school,
\* answered 404
C30_Witness ==
  /\ probe.done /\ probe.out # << >>
  /\ \E i \in 1..Len(alerts) : BusById(alerts[i].bus_id).school_id # probe.school
  /\ last.op = "acknowledge" /\ last.status = 404
  /\ \A i \in 1..Len(alerts) : ~alerts[i].is_acknowledged

====
